---------------------------- MODULE Spec2Model ----------------------------
(***************************************************************************)
(* Model of the carburetor icing calculator (src/src/App.tsx).             *)
(*                                                                         *)
(* Numbers.  A JavaScript number is modelled as a record [nan, v]: NaN, or *)
(* an exact rational v / Scale degrees.  Scale is 9 * 5, the product of    *)
(* the two divisors of cToF and fToC, so that both conversions are exact   *)
(* on every whole-degree reading.  Floating-point rounding is not          *)
(* modelled; overflow is: big = 1 is the double 1e308 (finite, but 5 times *)
(* and 9 times it exceed Number.MAX_VALUE), big = 2 is Infinity, and       *)
(* big = -1, -2 are their negatives.  big = 0 is an ordinary number.       *)
(*                                                                         *)
(* Strings.  A string is a record [k, n]:                                  *)
(*   k = "empty"    the empty string '' (the only falsy string)            *)
(*   k = "text"     text without a numeric prefix ('abc', 'NaN')           *)
(*   k = "num"      the output of Number.prototype.toString for n          *)
(*   k = "numtext"  other text whose numeric prefix is n ('5.0', '5abc')   *)
(***************************************************************************)
EXTENDS Integers, FiniteSets, Sequences, TLC

VARIABLES temp, dewPoint, tempUnit, icingRisk, tempInput, dewPointInput,
          pending, last

vars == <<temp, dewPoint, tempUnit, icingRisk, tempInput, dewPointInput,
          pending, last>>

-----------------------------------------------------------------------------
(* Bounds of the model *)

\* number of readings of the list Readings the user may type
NumReadings == 8
\* whole degrees below 0 and above 40 covered by the classifier's input grid
MaxOutside == 3
\* the round trip of the converters is tried on -MaxNinths/9 .. MaxNinths/9
\* degrees, in steps of 1/9 degree
MaxNinths == 400

-----------------------------------------------------------------------------
(* Numbers and strings *)

Scale == 9 * 5

Deg(d) == d * Scale

Num(v) == [nan |-> FALSE, v |-> v, big |-> 0]
NaN == [nan |-> TRUE, v |-> 0, big |-> 0]

\* 1e308 and -1e308
Huge(sign) == [nan |-> FALSE, v |-> 0, big |-> sign]
\* Infinity and -Infinity
Infinity(sign) == [nan |-> FALSE, v |-> 0, big |-> 2 * sign]

Sign(x) == IF x.big > 0 THEN 1 ELSE -1

\* x === NaN, which no value satisfies
isNaNByEquality(x) == FALSE

isNaN(x) == x.nan

\* the comparison written the wrong way round
GtInverted(x, y) ==
    ~x.nan /\ ~y.nan /\ (x.big < y.big \/ (x.big = y.big /\ x.v < y.v))

\* x > y in JavaScript: false when either side is NaN
Gt(x, y) ==
    ~x.nan /\ ~y.nan /\ (x.big > y.big \/ (x.big = y.big /\ x.v > y.v))

EmptyStr == [k |-> "empty", n |-> 0, big |-> 0]
TextStr == [k |-> "text", n |-> 0, big |-> 0]
NumStr(v) == [k |-> "num", n |-> v, big |-> 0]
NumTextStr(v) == [k |-> "numtext", n |-> v, big |-> 0]
\* '1e+308' and '-1e+308'
HugeStr(sign) == [k |-> "num", n |-> 0, big |-> sign]
\* 'Infinity' and '-Infinity'
InfinityStr(sign) == [k |-> "num", n |-> 0, big |-> 2 * sign]

\* truthiness of a string: only '' is falsy
Truthy(s) == s.k # "empty"

\* Number(s) in place of parseFloat(s): '' is 0, and text after the digits
\* makes NaN
parseFloatAsNumber(s) ==
    IF s.k = "num" THEN [nan |-> FALSE, v |-> s.n, big |-> s.big]
    ELSE IF s.k = "empty" THEN Num(0)
    ELSE NaN

parseFloat(s) ==
    IF s.k \in {"num", "numtext"}
    THEN [nan |-> FALSE, v |-> s.n, big |-> s.big]
    ELSE NaN

toString(x) ==
    IF x.nan THEN TextStr ELSE [k |-> "num", n |-> x.v, big |-> x.big]

\* c * 5/9 + 32: the ratio of cToF turned upside down
cToFInvertedRatio(c) ==
    IF c.nan THEN NaN
    ELSE IF c.big # 0 THEN Infinity(Sign(c))
    ELSE Num((c.v * 5) \div 9 + Deg(32))

\* c * 9/5: the offset of cToF left out
cToFNoOffset(c) ==
    IF c.nan THEN NaN
    ELSE IF c.big # 0 THEN Infinity(Sign(c))
    ELSE Num((c.v * 9) \div 5)

\* c * 9 overflows to Infinity on 1e308
cToF(c) ==
    IF c.nan THEN NaN
    ELSE IF c.big # 0 THEN Infinity(Sign(c))
    ELSE Num((c.v * 9) \div 5 + Deg(32))

\* f - 32 * 5/9: the parentheses of fToC left out
fToCUnparenthesised(f) ==
    IF f.nan THEN NaN ELSE Num(f.v - (Deg(32) * 5) \div 9)

\* 1e308 - 32 is 1e308, and 1e308 * 5 overflows to Infinity
fToC(f) ==
    IF f.nan THEN NaN
    ELSE IF f.big # 0 THEN Infinity(Sign(f))
    ELSE Num(((f.v - Deg(32)) * 5) \div 9)

-----------------------------------------------------------------------------
(* The classifier *)

Null == "null"

SeriousAnyPower == "Serious icing - any power"
SeriousDescentPower == "Serious icing - descent power"
ModerateCruise == "Moderate icing - cruise power, or Serious icing - descent power"
LightCruiseOrDescent == "Light icing - cruise or descent power"
NoIcing == "No icing"

\* a rule of the table, with its bounds written as they were mistyped
InBandStrict(T, D, tMax, dMax) ==
    T > Deg(0) /\ T < Deg(tMax) /\ D > Deg(0) /\ D < Deg(dMax)

\* a rule of the table that forgets the lower bound of the depression
InBandNoFloor(T, D, tMax, dMax) ==
    T >= Deg(0) /\ T <= Deg(tMax) /\ D <= Deg(dMax)

\* a rule of the table that forgets the upper bound of the temperature
InBandNoCeiling(T, D, tMax, dMax) ==
    T >= Deg(0) /\ D >= Deg(0) /\ D <= Deg(dMax)

\* the condition shared by the four rules:
\* tempNum >= 0 && tempNum <= tMax && depression >= 0 && depression <= dMax
InBand(T, D, tMax, dMax) ==
    T >= Deg(0) /\ T <= Deg(tMax) /\ D >= Deg(0) /\ D <= Deg(dMax)

\* the rules tested from the widest to the narrowest
calculateIcingRiskWidestFirst(t, d) ==
    LET tempNum == parseFloat(t)
        dewPointNum == parseFloat(d)
    IN  IF isNaN(tempNum) \/ isNaN(dewPointNum) THEN Null
        ELSE
        LET dewPointDepression == tempNum.v - dewPointNum.v
        IN  IF InBand(tempNum.v, dewPointDepression, 40, 25)
            THEN LightCruiseOrDescent
            ELSE IF InBand(tempNum.v, dewPointDepression, 30, 15)
            THEN ModerateCruise
            ELSE IF InBand(tempNum.v, dewPointDepression, 20, 12)
            THEN SeriousDescentPower
            ELSE IF InBand(tempNum.v, dewPointDepression, 20, 8)
            THEN SeriousAnyPower
            ELSE NoIcing

\* the final return left out: the function falls off its end
calculateIcingRiskNoFallback(t, d) ==
    LET tempNum == parseFloat(t)
        dewPointNum == parseFloat(d)
    IN  IF isNaN(tempNum) \/ isNaN(dewPointNum) THEN Null
        ELSE
        LET dewPointDepression == tempNum.v - dewPointNum.v
        IN  IF InBand(tempNum.v, dewPointDepression, 20, 8)
            THEN SeriousAnyPower
            ELSE IF InBand(tempNum.v, dewPointDepression, 20, 12)
            THEN SeriousDescentPower
            ELSE IF InBand(tempNum.v, dewPointDepression, 30, 15)
            THEN ModerateCruise
            ELSE IF InBand(tempNum.v, dewPointDepression, 40, 25)
            THEN LightCruiseOrDescent
            ELSE Null

\* only the temperature checked for NaN; NaN - x compares false everywhere
calculateIcingRiskHalfChecked(t, d) ==
    LET tempNum == parseFloat(t)
        dewPointNum == parseFloat(d)
    IN  IF isNaN(tempNum) THEN Null
        ELSE IF isNaN(dewPointNum) THEN NoIcing
        ELSE
        LET dewPointDepression == tempNum.v - dewPointNum.v
        IN  IF InBand(tempNum.v, dewPointDepression, 20, 8)
            THEN SeriousAnyPower
            ELSE IF InBand(tempNum.v, dewPointDepression, 20, 12)
            THEN SeriousDescentPower
            ELSE IF InBand(tempNum.v, dewPointDepression, 30, 15)
            THEN ModerateCruise
            ELSE IF InBand(tempNum.v, dewPointDepression, 40, 25)
            THEN LightCruiseOrDescent
            ELSE NoIcing

\* the labels of the first two rules exchanged
calculateIcingRiskLabelsSwapped(t, d) ==
    LET tempNum == parseFloat(t)
        dewPointNum == parseFloat(d)
    IN  IF isNaN(tempNum) \/ isNaN(dewPointNum) THEN Null
        ELSE IF tempNum.big # 0 \/ dewPointNum.big # 0 THEN NoIcing
        ELSE
        LET dewPointDepression == tempNum.v - dewPointNum.v
        IN  IF InBand(tempNum.v, dewPointDepression, 20, 8)
            THEN SeriousDescentPower
            ELSE IF InBand(tempNum.v, dewPointDepression, 20, 12)
            THEN SeriousAnyPower
            ELSE IF InBand(tempNum.v, dewPointDepression, 30, 15)
            THEN ModerateCruise
            ELSE IF InBand(tempNum.v, dewPointDepression, 40, 25)
            THEN LightCruiseOrDescent
            ELSE NoIcing

calculateIcingRisk(t, d) ==
    LET tempNum == parseFloat(t)
        dewPointNum == parseFloat(d)
    IN  IF isNaN(tempNum) \/ isNaN(dewPointNum) THEN Null
        \* with 1e308 or Infinity on either side, the temperature or the
        \* depression (1e308, Infinity or NaN in magnitude) fails every rule
        ELSE IF tempNum.big # 0 \/ dewPointNum.big # 0 THEN NoIcing
        ELSE
        LET dewPointDepression == tempNum.v - dewPointNum.v
        IN  IF InBand(tempNum.v, dewPointDepression, 20, 8)
            THEN SeriousAnyPower
            ELSE IF InBand(tempNum.v, dewPointDepression, 20, 12)
            THEN SeriousDescentPower
            ELSE IF InBand(tempNum.v, dewPointDepression, 30, 15)
            THEN ModerateCruise
            ELSE IF InBand(tempNum.v, dewPointDepression, 40, 25)
            THEN LightCruiseOrDescent
            ELSE NoIcing

-----------------------------------------------------------------------------
(* Inputs *)

\* whole-degree readings the user types, in either unit
Readings == <<10, 5, 50, 41, 32, 0, 20, 68, 23, 86>>

ReadingVals == {Deg(Readings[i]) : i \in 1..NumReadings}

\* values of e.target.value
InputStrings ==
    {EmptyStr, TextStr} \cup {NumStr(v) : v \in ReadingVals}
        \cup {NumTextStr(Deg(Readings[1]))}

Units == {"C", "F"}

-----------------------------------------------------------------------------
(* The component *)

Init ==
    /\ temp = EmptyStr
    /\ dewPoint = EmptyStr
    /\ tempUnit = "C"
    /\ icingRisk = Null
    /\ tempInput = EmptyStr
    /\ dewPointInput = EmptyStr
    /\ pending = {}
    /\ last = "mount"

\* the risk effect with the dependency list [temp] instead of [temp, dewPoint]
ScheduledOnTempOnly(t, d, u) ==
    (IF u # tempUnit THEN {"unit"} ELSE {})
        \cup (IF t # temp THEN {"risk"} ELSE {})

\* effects scheduled by a render that follows a state update
Scheduled(t, d, u) ==
    (IF u # tempUnit THEN {"unit"} ELSE {})
        \cup (IF t # temp \/ d # dewPoint THEN {"risk"} ELSE {})

\* the adjustment of the dew point without setDewPointInput
handleTempInputChangeKeepsDisplay(value) ==
    /\ pending = {}
    /\ tempInput' = value
    /\ IF ~Truthy(value)
       THEN /\ temp' = EmptyStr
            /\ UNCHANGED <<dewPoint, dewPointInput>>
            /\ last' = "tempCleared"
       ELSE LET numValue == parseFloat(value) IN
            IF isNaN(numValue)
            THEN /\ UNCHANGED <<temp, dewPoint, dewPointInput>>
                 /\ last' = "tempRejected"
            ELSE LET newTempNum == IF tempUnit = "F" THEN fToC(numValue) ELSE numValue
                 IN  /\ temp' = toString(newTempNum)
                     /\ IF Truthy(dewPoint) /\ Gt(parseFloat(dewPoint), newTempNum)
                        THEN /\ dewPoint' = toString(newTempNum)
                             /\ UNCHANGED dewPointInput
                             /\ last' = "tempAdjusted"
                        ELSE /\ UNCHANGED <<dewPoint, dewPointInput>>
                             /\ last' = "temp"
    /\ pending' = Scheduled(temp', dewPoint', tempUnit)
    /\ UNCHANGED <<tempUnit, icingRisk>>

handleTempInputChange(value) ==
    /\ pending = {}
    /\ tempInput' = value
    /\ IF ~Truthy(value)
       THEN /\ temp' = EmptyStr
            /\ UNCHANGED <<dewPoint, dewPointInput>>
            /\ last' = "tempCleared"
       ELSE LET numValue == parseFloat(value) IN
            IF isNaN(numValue)
            THEN /\ UNCHANGED <<temp, dewPoint, dewPointInput>>
                 /\ last' = "tempRejected"
            ELSE LET newTempNum == IF tempUnit = "F" THEN fToC(numValue) ELSE numValue
                     adjustedDewPoint ==
                         IF tempUnit = "F" THEN cToF(newTempNum) ELSE newTempNum
                 IN  /\ temp' = toString(newTempNum)
                     /\ IF Truthy(dewPoint) /\ Gt(parseFloat(dewPoint), newTempNum)
                        THEN /\ dewPoint' = toString(newTempNum)
                             /\ dewPointInput' = toString(adjustedDewPoint)
                             /\ last' = "tempAdjusted"
                        ELSE /\ UNCHANGED <<dewPoint, dewPointInput>>
                             /\ last' = "temp"
    /\ pending' = Scheduled(temp', dewPoint', tempUnit)
    /\ UNCHANGED <<tempUnit, icingRisk>>

\* the cap applied without the test that a temperature is stored
handleDewPointInputChangeCapsUnset(value) ==
    /\ pending = {}
    /\ IF ~Truthy(value)
       THEN /\ dewPointInput' = value
            /\ dewPoint' = EmptyStr
            /\ last' = "dewCleared"
       ELSE LET numValue == parseFloat(value) IN
            IF isNaN(numValue)
            THEN /\ dewPointInput' = value
                 /\ UNCHANGED dewPoint
                 /\ last' = "dewRejected"
            ELSE LET dewPointCelsius ==
                         IF tempUnit = "F" THEN fToC(numValue) ELSE numValue
                     tempCelsius == IF Truthy(temp) THEN parseFloat(temp) ELSE Num(0)
                     cappedDewPoint ==
                         IF tempUnit = "F" THEN cToF(tempCelsius) ELSE tempCelsius
                 IN  IF Gt(dewPointCelsius, tempCelsius)
                     THEN /\ dewPoint' = toString(tempCelsius)
                          /\ dewPointInput' = toString(cappedDewPoint)
                          /\ last' = "dewCapped"
                     ELSE /\ dewPointInput' = value
                          /\ dewPoint' = toString(dewPointCelsius)
                          /\ last' = "dew"
    /\ pending' = Scheduled(temp, dewPoint', tempUnit)
    /\ UNCHANGED <<temp, tempUnit, icingRisk, tempInput>>

handleDewPointInputChange(value) ==
    /\ pending = {}
    /\ IF ~Truthy(value)
       THEN /\ dewPointInput' = value
            /\ dewPoint' = EmptyStr
            /\ last' = "dewCleared"
       ELSE LET numValue == parseFloat(value) IN
            IF isNaN(numValue)
            THEN /\ dewPointInput' = value
                 /\ UNCHANGED dewPoint
                 /\ last' = "dewRejected"
            ELSE LET dewPointCelsius ==
                         IF tempUnit = "F" THEN fToC(numValue) ELSE numValue
                     tempCelsius == IF Truthy(temp) THEN parseFloat(temp) ELSE Num(0)
                     cappedDewPoint ==
                         IF tempUnit = "F" THEN cToF(tempCelsius) ELSE tempCelsius
                 IN  IF Gt(dewPointCelsius, tempCelsius) /\ Truthy(temp)
                     THEN /\ dewPoint' = toString(tempCelsius)
                          /\ dewPointInput' = toString(cappedDewPoint)
                          /\ last' = "dewCapped"
                     ELSE /\ dewPointInput' = value
                          /\ dewPoint' = toString(dewPointCelsius)
                          /\ last' = "dew"
    /\ pending' = Scheduled(temp, dewPoint', tempUnit)
    /\ UNCHANGED <<temp, tempUnit, icingRisk, tempInput>>

\* Select.onValueChange.  Selecting the unit already selected changes no
\* state.  A change back to Celsius straight after a change to Fahrenheit is
\* labelled "toggledBack".
setTempUnit(value) ==
    /\ pending = {}
    /\ tempUnit' = value
    /\ pending' = Scheduled(temp, dewPoint, value)
    /\ last' = IF value = tempUnit THEN last
               ELSE IF value = "C" /\ last = "setTempUnit" THEN "toggledBack"
               ELSE "setTempUnit"
    /\ UNCHANGED <<temp, dewPoint, icingRisk, tempInput, dewPointInput>>

\* the unit effect converting the stored values as well as the displayed ones
UnitEffectConvertsStored ==
    /\ "unit" \in pending
    /\ tempInput' =
          IF Truthy(temp)
          THEN LET tempNum == parseFloat(temp) IN
               IF tempUnit = "F" THEN toString(cToF(tempNum)) ELSE toString(tempNum)
          ELSE tempInput
    /\ dewPointInput' =
          IF Truthy(dewPoint)
          THEN LET dewPointNum == parseFloat(dewPoint) IN
               IF tempUnit = "F" THEN toString(cToF(dewPointNum))
               ELSE toString(dewPointNum)
          ELSE dewPointInput
    /\ temp' = IF Truthy(temp) THEN tempInput' ELSE temp
    /\ dewPoint' = IF Truthy(dewPoint) THEN dewPointInput' ELSE dewPoint
    /\ pending' = pending \ {"unit"}
    /\ UNCHANGED <<tempUnit, icingRisk, last>>

\* the unit effect without its Celsius branches
UnitEffectFahrenheitOnly ==
    /\ "unit" \in pending
    /\ tempInput' =
          IF Truthy(temp) /\ tempUnit = "F"
          THEN toString(cToF(parseFloat(temp)))
          ELSE tempInput
    /\ dewPointInput' =
          IF Truthy(dewPoint) /\ tempUnit = "F"
          THEN toString(cToF(parseFloat(dewPoint)))
          ELSE dewPointInput
    /\ pending' = pending \ {"unit"}
    /\ UNCHANGED <<temp, dewPoint, tempUnit, icingRisk, last>>

\* useEffect(..., [tempUnit])
UnitEffect ==
    /\ "unit" \in pending
    /\ tempInput' =
          IF Truthy(temp)
          THEN LET tempNum == parseFloat(temp) IN
               IF tempUnit = "F" THEN toString(cToF(tempNum)) ELSE toString(tempNum)
          ELSE tempInput
    /\ dewPointInput' =
          IF Truthy(dewPoint)
          THEN LET dewPointNum == parseFloat(dewPoint) IN
               IF tempUnit = "F" THEN toString(cToF(dewPointNum))
               ELSE toString(dewPointNum)
          ELSE dewPointInput
    /\ pending' = pending \ {"unit"}
    /\ UNCHANGED <<temp, dewPoint, tempUnit, icingRisk, last>>

\* the risk effect setting the risk only when there is a category
RiskEffectKeepsCategory ==
    /\ "risk" \in pending
    /\ "unit" \notin pending
    /\ icingRisk' =
          IF calculateIcingRisk(temp, dewPoint) # Null
          THEN calculateIcingRisk(temp, dewPoint)
          ELSE icingRisk
    /\ pending' = pending \ {"risk"}
    /\ UNCHANGED <<temp, dewPoint, tempUnit, tempInput, dewPointInput, last>>

\* useEffect(..., [temp, dewPoint]); effects run in declaration order
RiskEffect ==
    /\ "risk" \in pending
    /\ "unit" \notin pending
    /\ icingRisk' = calculateIcingRisk(temp, dewPoint)
    /\ pending' = pending \ {"risk"}
    /\ UNCHANGED <<temp, dewPoint, tempUnit, tempInput, dewPointInput, last>>

TempInput == \E value \in InputStrings : handleTempInputChange(value)

DewPointInput == \E value \in InputStrings : handleDewPointInputChange(value)

UnitSelect == \E value \in Units : setTempUnit(value)

Next == TempInput \/ DewPointInput \/ UnitSelect \/ UnitEffect \/ RiskEffect

Spec == Init /\ [][Next]_vars

\* React runs every effect a render has scheduled before the next event
FairSpec == Spec /\ WF_vars(UnitEffect) /\ WF_vars(RiskEffect)

-----------------------------------------------------------------------------
(* The user point of HumidityCarbIcePotentialChart, drawn from the props    *)
(* temp, dewPoint and tempUnit after every render in which one of them      *)
(* changed.  x and y are the arguments of xScale and yScale.                *)

\* x <= y in JavaScript: false when either side is NaN
Le(x, y) ==
    ~x.nan /\ ~y.nan /\ (x.big < y.big \/ (x.big = y.big /\ x.v <= y.v))

\* the point plotted only when the dew point is strictly below the temperature
UserPointStrict(t, d, u) ==
    IF Truthy(t) /\ Truthy(d)
    THEN LET tempNum == parseFloat(t)
             dewPointNum == parseFloat(d)
             displayTemp == IF u = "F" THEN cToF(tempNum) ELSE tempNum
             displayDewPoint == IF u = "F" THEN cToF(dewPointNum) ELSE dewPointNum
         IN  IF Gt(tempNum, dewPointNum)
             THEN [fill |-> "red", x |-> displayTemp, y |-> displayDewPoint]
             ELSE [fill |-> "gray", x |-> displayTemp, y |-> displayTemp]
    ELSE [fill |-> "none", x |-> NaN, y |-> NaN]

UserPoint(t, d, u) ==
    IF Truthy(t) /\ Truthy(d)
    THEN LET tempNum == parseFloat(t)
             dewPointNum == parseFloat(d)
             displayTemp == IF u = "F" THEN cToF(tempNum) ELSE tempNum
             displayDewPoint == IF u = "F" THEN cToF(dewPointNum) ELSE dewPointNum
         IN  IF Le(dewPointNum, tempNum)
             THEN [fill |-> "red", x |-> displayTemp, y |-> displayDewPoint]
             ELSE [fill |-> "gray", x |-> displayTemp, y |-> displayTemp]
    ELSE [fill |-> "none", x |-> NaN, y |-> NaN]

-----------------------------------------------------------------------------
(* The classifier on its own: the component mounted on an arbitrary pair of *)
(* strings, whose mount effect classifies them                              *)

ClassifyNums ==
    {Deg(c) + o : c \in (0 - MaxOutside)..(40 + MaxOutside), o \in {-1, 0, 1}}

ClassifyStrings ==
    {EmptyStr, TextStr} \cup {NumStr(v) : v \in ClassifyNums}
        \cup {NumTextStr(Deg(Readings[1]))}

InitClassify ==
    /\ temp \in ClassifyStrings
    /\ dewPoint \in ClassifyStrings
    /\ tempUnit = "C"
    /\ icingRisk = Null
    /\ tempInput = EmptyStr
    /\ dewPointInput = EmptyStr
    /\ pending = {"risk"}
    /\ last = "mount"

NextClassify == RiskEffect

SpecClassify == InitClassify /\ [][NextClassify]_vars

-----------------------------------------------------------------------------
(* The converters on their own: a temperature typed in Celsius, Fahrenheit  *)
(* selected, and the displayed Fahrenheit text typed again as it stands, so *)
(* that the stored value becomes fToC(cToF(x))                              *)

\* multiples of 1/9 degree, on which cToF divides exactly, and 1e308
RoundTripStrings ==
    {NumStr(5 * k) : k \in (0 - MaxNinths)..MaxNinths}
        \cup {HugeStr(1), HugeStr(-1)}

\* the state setTempUnit('F') leaves
InitRoundTrip ==
    /\ temp \in RoundTripStrings
    /\ dewPoint = EmptyStr
    /\ tempUnit = "F"
    /\ icingRisk = Null
    /\ tempInput = temp
    /\ dewPointInput = EmptyStr
    /\ pending = {"unit"}
    /\ last = "setTempUnit"

\* Input.onChange with the text the field displays
Retype == handleTempInputChange(tempInput)

NextRoundTrip == UnitEffect \/ Retype \/ RiskEffect

SpecRoundTrip == InitRoundTrip /\ [][NextRoundTrip]_vars

-----------------------------------------------------------------------------
(* Properties of the classifier, checked under SpecClassify *)

\* the mount effect has run
Classified == pending = {}

\* the string parses to a finite number
Finite(s) == s.k \in {"num", "numtext"} /\ s.big \in {-1, 0, 1}

FiniteInputs == Finite(temp) /\ Finite(dewPoint)

\* the stored temperature and the dew-point depression, in 1/Scale degrees
TempOf == temp.n
DepressionOf == temp.n - dewPoint.n

\* the ordered rule table of the specification
RuleTable ==
    << [tMax |-> 20, dMax |-> 8, result |-> SeriousAnyPower],
       [tMax |-> 20, dMax |-> 12, result |-> SeriousDescentPower],
       [tMax |-> 30, dMax |-> 15, result |-> ModerateCruise],
       [tMax |-> 40, dMax |-> 25, result |-> LightCruiseOrDescent] >>

Matching(T, D) ==
    {i \in DOMAIN RuleTable :
        /\ 0 <= T /\ T <= RuleTable[i].tMax * Scale
        /\ 0 <= D /\ D <= RuleTable[i].dMax * Scale}

FirstMatch(T, D) ==
    IF Matching(T, D) = {} THEN NoIcing
    ELSE RuleTable[CHOOSE i \in Matching(T, D) :
                      \A j \in Matching(T, D) : i <= j].result

Categories ==
    {SeriousAnyPower, SeriousDescentPower, ModerateCruise, LightCruiseOrDescent,
     NoIcing}

\* C1: for finite inputs the result is that of the first matching rule of the
\* ordered table, and 'No icing' when no rule matches.
C1_FirstMatchingRule ==
    (Classified /\ FiniteInputs) => icingRisk = FirstMatch(TempOf, DepressionOf)

\* T = 10, dew point = 0: rule 1 fails, rules 2, 3 and 4 match, rule 2 wins
C1_Witness ==
    /\ Classified
    /\ temp = NumStr(Deg(10)) /\ dewPoint = NumStr(Deg(0))
    /\ Matching(TempOf, DepressionOf) = {2, 3, 4}
    /\ icingRisk = SeriousDescentPower

\* C2: when the temperature or the dew point is empty or does not parse to a
\* number, the result is null and not a category.
C2_UnparseableGivesNull ==
    (Classified /\ ~FiniteInputs) => (icingRisk = Null /\ icingRisk \notin Categories)

\* a parseable temperature with an empty dew point
C2_Witness ==
    /\ Classified
    /\ temp = NumStr(Deg(10)) /\ dewPoint = EmptyStr
    /\ icingRisk = Null

\* C3: for finite inputs the result is one of the five categories, never null,
\* and it is 'No icing' when no rule matches.
C3_Total ==
    (Classified /\ FiniteInputs) =>
        /\ icingRisk \in Categories
        /\ (Matching(TempOf, DepressionOf) = {} => icingRisk = NoIcing)

\* a finite pair no rule matches reaches the fallback
C3_Witness ==
    /\ Classified /\ FiniteInputs
    /\ Matching(TempOf, DepressionOf) = {}
    /\ icingRisk = NoIcing

\* C4: a dew point above the temperature gives 'No icing' whatever the
\* temperature.
C4_NegativeDepression ==
    (Classified /\ FiniteInputs /\ dewPoint.n > temp.n) => icingRisk = NoIcing

\* T = 20, dew point = 25
C4_Witness ==
    /\ Classified
    /\ temp = NumStr(Deg(20)) /\ dewPoint = NumStr(Deg(25))
    /\ icingRisk = NoIcing

\* C5: a temperature below 0 or above 40 gives 'No icing', and so does a
\* temperature in [0, 40] with a depression above 25.
C5_OutOfRange ==
    (Classified /\ FiniteInputs) =>
        /\ (TempOf < Deg(0) \/ TempOf > Deg(40)) => icingRisk = NoIcing
        /\ (Deg(0) <= TempOf /\ TempOf <= Deg(40) /\ DepressionOf > Deg(25))
               => icingRisk = NoIcing

\* just above 40 degrees with a small depression
C5_Witness ==
    /\ Classified
    /\ temp = NumStr(Deg(40) + 1) /\ dewPoint = NumStr(Deg(40))
    /\ icingRisk = NoIcing

\* the category the component holds for temperature T and depression D,
\* when that is the pair it classified
At(T, D, category) ==
    (Classified /\ temp = NumStr(Deg(T)) /\ dewPoint = NumStr(Deg(T - D)))
        => icingRisk = category

\* C6: the bounds are inclusive and a shared boundary point gets the earlier
\* rule's category.
C6_InclusiveBounds ==
    /\ At(20, 8, SeriousAnyPower)
    /\ At(0, 0, SeriousAnyPower)
    /\ At(20, 12, SeriousDescentPower)
    /\ At(30, 15, ModerateCruise)
    /\ At(40, 25, LightCruiseOrDescent)

\* the corner (T = 20, D = 8) of rule 1, inside rules 2, 3 and 4 as well
C6_Witness ==
    /\ Classified
    /\ temp = NumStr(Deg(20)) /\ dewPoint = NumStr(Deg(12))
    /\ Matching(TempOf, DepressionOf) = {1, 2, 3, 4}
    /\ icingRisk = SeriousAnyPower

-----------------------------------------------------------------------------
(* Properties of the component, checked under Spec and FairSpec *)

TypeOK ==
    /\ temp.k \in {"empty", "num"}
    /\ dewPoint.k \in {"empty", "num"}
    /\ tempUnit \in Units
    /\ icingRisk \in Categories \cup {Null}
    /\ pending \in {{}, {"unit"}, {"risk"}}
    \* every stored value is one on which cToF divides exactly
    /\ (temp.n * 9) % 5 = 0
    /\ (dewPoint.n * 9) % 5 = 0

\* C7: when both stored values are non-empty the stored dew point does not
\* exceed the stored temperature, so the classifier never sees a negative
\* depression.
C7_DewPointAtMostTemp ==
    (Truthy(temp) /\ Truthy(dewPoint)) =>
        /\ Finite(temp) /\ Finite(dewPoint)
        /\ dewPoint.n <= temp.n
        /\ DepressionOf >= 0

\* in Fahrenheit, a temperature typed below the stored dew point pulled the
\* dew point down to it
C7_Witness ==
    /\ last = "tempAdjusted"
    /\ tempUnit = "F"
    /\ Truthy(temp) /\ dewPoint = temp
    /\ "risk" \in pending

\* a step that selects a unit, or the unit effect running
UnitChangeStep ==
    \/ tempUnit' # tempUnit
    \/ ("unit" \in pending /\ "unit" \notin pending')

\* C8: a unit change leaves the stored temperature, the stored dew point and
\* the icing risk as they were; only the displayed strings are rewritten.
C8_UnitChangeFrame ==
    [][UnitChangeStep =>
          (temp' = temp /\ dewPoint' = dewPoint /\ icingRisk' = icingRisk)]_vars

\* 10 C typed in Celsius and then shown as 50 F, the category unchanged
C8_Witness ==
    /\ last = "setTempUnit" /\ pending = {}
    /\ tempUnit = "F"
    /\ temp = NumStr(Deg(10)) /\ tempInput = NumStr(Deg(50))
    /\ dewPoint = NumStr(Deg(5)) /\ dewPointInput = NumStr(Deg(41))
    /\ icingRisk = SeriousAnyPower

UpToDate == icingRisk = calculateIcingRisk(temp, dewPoint)

\* C9: a change of the stored temperature or dew point schedules the risk
\* effect, the effect then runs, and whenever no effect is pending the icing
\* risk is the classification of the pair stored now.
C9_RiskRecomputed ==
    /\ [](pending = {} => UpToDate)
    /\ [][(temp' # temp \/ dewPoint' # dewPoint) => "risk" \in pending']_vars
    /\ [](("risk" \in pending) => <>(pending = {} /\ UpToDate))

\* the dew point was capped to 10 C after the risk had been computed for a
\* lower one, and the risk follows
C9_Witness ==
    /\ last = "dewCapped" /\ pending = {}
    /\ temp = NumStr(Deg(10)) /\ dewPoint = NumStr(Deg(10))
    /\ icingRisk = SeriousAnyPower

\* c degrees Celsius is f degrees Fahrenheit (both in 1/Scale degrees)
SameReading(f, c) == c * 9 = (f - Deg(32)) * 5

\* the stored value s is the reading typed as the string input in the
\* selected unit
StoredReading(input, s) ==
    /\ Finite(input) /\ s.k = "num"
    /\ tempUnit = "F" => SameReading(input.n, s.n)
    /\ tempUnit = "C" => s.n = input.n

-----------------------------------------------------------------------------
(* Properties of the converters, checked under SpecRoundTrip *)

\* the displayed Fahrenheit text typed again, for the first time
RetypeStep == pending = {} /\ last = "setTempUnit" /\ last' = "temp"

-----------------------------------------------------------------------------
(* Properties of the two input handlers, checked under Spec *)

\* the stored string s is the reading typed as value in the selected unit
TypedAs(value, s) ==
    /\ s.k = "num" /\ s.big = 0
    /\ tempUnit = "C" => s.n = value.n
    /\ tempUnit = "F" => SameReading(value.n, s.n)

\* the string s displays c (1/Scale degrees Celsius) in the selected unit
Displays(s, c) ==
    /\ s.k = "num" /\ s.big = 0
    /\ tempUnit = "C" => s.n = c
    /\ tempUnit = "F" => SameReading(s.n, c)

\* the reading typed as value in the selected unit is below, or above,
\* c (1/Scale degrees Celsius); in Fahrenheit both sides are multiplied by 9
TypedBelow(value, c) ==
    IF tempUnit = "F" THEN (value.n - Deg(32)) * 5 < c * 9 ELSE value.n < c

TypedAbove(value, c) ==
    IF tempUnit = "F" THEN (value.n - Deg(32)) * 5 > c * 9 ELSE value.n > c

\* C12: a parseable temperature typed below the stored dew point is stored,
\* the stored dew point becomes that temperature and its display that
\* temperature in the selected unit; otherwise the stored dew point and its
\* display are left as they were.
C12_TempEntryLowersDewPoint ==
    [][\A value \in InputStrings :
          (handleTempInputChange(value) /\ Finite(value)) =>
              /\ TypedAs(value, temp')
              /\ IF Truthy(dewPoint) /\ TypedBelow(value, dewPoint.n)
                 THEN /\ dewPoint' = temp'
                      /\ Displays(dewPointInput', temp'.n)
                 ELSE /\ dewPoint' = dewPoint
                      /\ dewPointInput' = dewPointInput]_vars

\* with a dew point of 10 C stored, 41 F typed as the temperature: both are
\* stored as 5 C and the dew point is shown as 41 F
C12_Witness ==
    /\ last = "tempAdjusted"
    /\ tempUnit = "F"
    /\ tempInput = NumStr(Deg(41))
    /\ temp = NumStr(Deg(5)) /\ dewPoint = NumStr(Deg(5))
    /\ dewPointInput = NumStr(Deg(41))

\* C13: a parseable dew point typed above a non-empty stored temperature is
\* stored as that temperature and displayed as it in the selected unit; with
\* no stored temperature, or when it is not above, what was typed is stored.
C13_DewPointEntryCapped ==
    [][\A value \in InputStrings :
          (handleDewPointInputChange(value) /\ Finite(value)) =>
              IF Truthy(temp) /\ TypedAbove(value, temp.n)
              THEN /\ dewPoint' = temp
                   /\ Displays(dewPointInput', temp.n)
              ELSE /\ TypedAs(value, dewPoint')
                   /\ dewPointInput' = value]_vars

\* with 10 C stored, 68 F typed as the dew point: stored as 10 C, shown as 50 F
C13_Witness ==
    /\ last = "dewCapped"
    /\ tempUnit = "F"
    /\ temp = NumStr(Deg(10)) /\ dewPoint = NumStr(Deg(10))
    /\ dewPointInput = NumStr(Deg(50))
    /\ "risk" \in pending

\* the unit effect runs
UnitEffectStep == "unit" \in pending /\ "unit" \notin pending'

UnitLabels == {"setTempUnit", "toggledBack"}

\* C14: once a unit change has taken effect, the display of each non-empty
\* stored value is that value in the selected unit, and the display of an
\* empty stored value is the text it was.
C14_DisplayFollowsUnit ==
    /\ [][UnitEffectStep =>
            /\ IF Truthy(temp) THEN Displays(tempInput', temp.n)
                               ELSE tempInput' = tempInput
            /\ IF Truthy(dewPoint) THEN Displays(dewPointInput', dewPoint.n)
                                   ELSE dewPointInput' = dewPointInput]_vars
    /\ []((last \in UnitLabels /\ pending = {}) =>
            /\ Truthy(temp) => Displays(tempInput, temp.n)
            /\ Truthy(dewPoint) => Displays(dewPointInput, dewPoint.n))

\* Fahrenheit selected with no temperature stored and 'abc' in its field, and
\* 5 C stored as the dew point: 'abc' stays, the dew point shows 41
C14_Witness ==
    /\ last = "setTempUnit" /\ pending = {}
    /\ tempUnit = "F"
    /\ temp = EmptyStr /\ tempInput = TextStr
    /\ dewPoint = NumStr(Deg(5)) /\ dewPointInput = NumStr(Deg(41))

\* C15: clearing the temperature field empties the stored temperature and
\* leaves the stored dew point, clearing the dew-point field empties the stored
\* dew point and leaves the stored temperature, and the icing risk then
\* becomes null.
C15_ClearingGivesNull ==
    /\ [][handleTempInputChange(EmptyStr) =>
            (temp' = EmptyStr /\ dewPoint' = dewPoint)]_vars
    /\ [][handleDewPointInputChange(EmptyStr) =>
            (dewPoint' = EmptyStr /\ temp' = temp)]_vars
    /\ []((last \in {"tempCleared", "dewCleared"} /\ pending = {})
            => icingRisk = Null)
    /\ []((last \in {"tempCleared", "dewCleared"}) => <>(icingRisk = Null))

\* 10 C and 5 C were classified, then the temperature field was cleared
C15_Witness ==
    /\ last = "tempCleared" /\ pending = {}
    /\ tempInput = EmptyStr /\ temp = EmptyStr
    /\ dewPoint = NumStr(Deg(5))
    /\ icingRisk = Null

\* the text typed is not empty and does not parse to a number
Unparseable(value) == Truthy(value) /\ ~Finite(value)

\* C16: a non-empty entry that does not parse changes the displayed text of
\* its field and nothing else: the stored values, the unit and the icing risk
\* stay, and no recomputation is scheduled.
C16_UnparseableEntryFrame ==
    [][\A value \in InputStrings : Unparseable(value) =>
          /\ handleTempInputChange(value) =>
                /\ tempInput' = value
                /\ UNCHANGED <<temp, dewPoint, tempUnit, icingRisk, dewPointInput>>
                /\ pending' = {}
          /\ handleDewPointInputChange(value) =>
                /\ dewPointInput' = value
                /\ UNCHANGED <<temp, dewPoint, tempUnit, icingRisk, tempInput>>
                /\ pending' = {}]_vars

\* 10 C and 5 C were classified, then 'abc' was typed as the temperature
C16_Witness ==
    /\ last = "tempRejected" /\ pending = {}
    /\ tempInput = TextStr
    /\ temp = NumStr(Deg(10)) /\ dewPoint = NumStr(Deg(5))
    /\ icingRisk = SeriousAnyPower

\* C17: when no effect is pending, the icing risk is a category exactly when
\* both stored values are non-empty; a dew point typed with no temperature
\* stored gives no category.
C17_CategoryIffBothStored ==
    pending = {} =>
        /\ icingRisk # Null <=> (Truthy(temp) /\ Truthy(dewPoint))
        /\ icingRisk # Null => icingRisk \in Categories

\* 5 C typed as the dew point with no temperature stored
C17_Witness ==
    /\ last = "dew" /\ pending = {}
    /\ temp = EmptyStr
    /\ dewPoint = NumStr(Deg(5)) /\ dewPointInput = NumStr(Deg(5))
    /\ icingRisk = Null

-----------------------------------------------------------------------------
(* Monotonicity of the classifier, checked under SpecClassify *)

Severity(category) ==
    CASE category = SeriousAnyPower -> 4
      [] category = SeriousDescentPower -> 3
      [] category = ModerateCruise -> 2
      [] category = LightCruiseOrDescent -> 1
      [] category = NoIcing -> 0

\* C18: the rule regions are nested, and for a fixed temperature a larger
\* non-negative depression never gives a more severe category.
C18_MonotoneInDepression ==
    (Classified /\ FiniteInputs /\ DepressionOf >= 0) =>
        /\ \A k \in Matching(TempOf, DepressionOf) :
              k < Len(RuleTable) => k + 1 \in Matching(TempOf, DepressionOf)
        /\ \A d \in ClassifyNums :
              d <= dewPoint.n =>
                  Severity(calculateIcingRisk(temp, NumStr(d)))
                      <= Severity(icingRisk)

\* T = 20: depression 5 is 'any power', and the larger depressions of the grid
\* run through 'descent power', 'moderate' and 'light'
C18_Witness ==
    /\ Classified
    /\ temp = NumStr(Deg(20)) /\ dewPoint = NumStr(Deg(15))
    /\ icingRisk = SeriousAnyPower
    /\ {Severity(calculateIcingRisk(temp, NumStr(d))) :
            d \in {e \in ClassifyNums : e <= dewPoint.n}} = 1..4

-----------------------------------------------------------------------------
(* Properties of the unit toggle and of the chart, checked under Spec *)

\* C19: Celsius -> Fahrenheit -> Celsius with no other input leaves the stored
\* temperature and dew point as they were, and ends with each field whose
\* stored value is non-empty displaying the stored Celsius value.
C19_ToggleRoundTrip ==
    /\ [][last' \in UnitLabels => (temp' = temp /\ dewPoint' = dewPoint)]_vars
    /\ []((last = "toggledBack" /\ pending = {}) =>
            /\ tempUnit = "C"
            /\ Truthy(temp) => tempInput = NumStr(temp.n)
            /\ Truthy(dewPoint) => dewPointInput = NumStr(dewPoint.n))

\* 10 C and 5 C, shown as 50 and 41, then as 10 and 5 again
C19_Witness ==
    /\ last = "toggledBack" /\ pending = {}
    /\ temp = NumStr(Deg(10)) /\ tempInput = NumStr(Deg(10))
    /\ dewPoint = NumStr(Deg(5)) /\ dewPointInput = NumStr(Deg(5))
    /\ icingRisk = SeriousAnyPower

\* the number x is c (1/Scale degrees Celsius) in the selected unit
InDisplayUnit(x, c) ==
    /\ ~x.nan /\ x.big = 0
    /\ tempUnit = "C" => x.v = c
    /\ tempUnit = "F" => SameReading(x.v, c)

\* C20: the chart never draws the gray 'invalid point'; whenever it plots a
\* point the stored dew point is at most the stored temperature and the red
\* marker is at (temp, dewPoint) in the display unit.
C20_NoInvalidPoint ==
    LET point == UserPoint(temp, dewPoint, tempUnit)
    IN  /\ point.fill # "gray"
        /\ (Truthy(temp) /\ Truthy(dewPoint)) =>
              /\ point.fill = "red"
              /\ dewPoint.n <= temp.n
              /\ InDisplayUnit(point.x, temp.n)
              /\ InDisplayUnit(point.y, dewPoint.n)

\* in Fahrenheit, a dew point capped at 10 C: the red marker is at (50, 50),
\* on the 100% line
C20_Witness ==
    /\ last = "dewCapped"
    /\ tempUnit = "F"
    /\ temp = NumStr(Deg(10)) /\ dewPoint = NumStr(Deg(10))
    /\ UserPoint(temp, dewPoint, tempUnit) =
          [fill |-> "red", x |-> Num(Deg(50)), y |-> Num(Deg(50))]

=============================================================================
